---------------------------- MODULE Spec2Model ----------------------------
(***************************************************************************)
(* A model of scripts/compare_benchmarks.py: the benchmark comparison      *)
(* script of stock-predict.  One run of main() is a state machine whose    *)
(* steps are the statements of main(); extract_benchmark_data,            *)
(* compare_benchmarks and print_comparison_report are operators computed   *)
(* the way the code computes them.                                         *)
(*                                                                         *)
(* Numbers.  The metric values are small integers, the threshold and the   *)
(* relative changes are exact fractions [n, d] with d > 0 in lowest terms. *)
(* Binary floating-point rounding is not modelled.                         *)
(***************************************************************************)
EXTENDS Integers, Sequences, FiniteSets, TLC

(***************************************************************************)
(* Bounds of the model.                                                    *)
(***************************************************************************)
MaxRecords == 2
MaxValue == 2
TDen == 2

(***************************************************************************)
(* Exact fractions.                                                        *)
(***************************************************************************)
Abs(x) == IF x < 0 THEN 0 - x ELSE x

RECURSIVE Gcd(_, _)
Gcd(a, b) == IF b = 0 THEN a ELSE Gcd(b, a % b)

Rat(n, d) ==
    LET s == IF d < 0 THEN 0 - 1 ELSE 1
        g == Gcd(Abs(n), Abs(d))
    IN  [n |-> (s * n) \div g, d |-> (s * d) \div g]

RatOfInt(k) == [n |-> k, d |-> 1]
RatLess(r, s) == r.n * s.d < s.n * r.d
RatNeg(r) == [n |-> 0 - r.n, d |-> r.d]
RatTimes(r, k) == Rat(r.n * k, r.d)

(***************************************************************************)
(* JSON values of a timing field.  A field is absent from the record, or   *)
(* holds null, a number, or a string that is not a number.                 *)
(***************************************************************************)
Absent == <<"absent", 0>>
Null == <<"null", 0>>
NaS == <<"str", 0>>
Num(k) == <<"num", k>>
IsNum(v) == v[1] = "num"

Numbers == 0..MaxValue

\* the candidate keys, in the order the code scans them
TimeKeys == <<"real_time", "cpu_time", "wall_time", "time", "duration">>
KeySet == {TimeKeys[i] : i \in DOMAIN TimeKeys}

\* bench.get('name', 'unknown'); NoName stands for a record without the key
NoName == ""
NameOf(bench) == IF bench.name = NoName THEN "unknown" ELSE bench.name

\* Python's str order on the names of the model (code-point lexicographic)
NameRank == [A |-> 1, B |-> 2, unknown |-> 3]
NameLess(a, b) == NameRank[a] < NameRank[b]

\* dict assignment results[name] = value
Put(m, k, v) == [x \in (DOMAIN m) \cup {k} |-> IF x = k THEN v ELSE m[x]]
EmptyMap == <<>>

(***************************************************************************)
(* load_benchmark_results.  A file is missing, is not JSON, or parses to   *)
(* one of the three document shapes.                                       *)
(***************************************************************************)
NotFound == [kind |-> "notfound", recs |-> <<>>]
BadJson == [kind |-> "badjson", recs |-> <<>>]

\* the list the function returns for a parsed document
load_benchmark_results(file) ==
    CASE file.kind = "wrapped" -> file.recs        \* data['benchmarks']
      [] file.kind = "list" -> file.recs           \* data
      [] OTHER -> <<file.recs[1]>>                 \* [data]

(***************************************************************************)
(* extract_benchmark_data.                                                 *)
(***************************************************************************)
\* a scan that takes the last candidate key present instead of the first
RECURSIVE ScanKeysReversed(_, _)
ScanKeysReversed(bench, i) ==
    IF i > Len(TimeKeys) THEN Null
    ELSE IF bench.f[TimeKeys[Len(TimeKeys) + 1 - i]] # Absent
         THEN bench.f[TimeKeys[Len(TimeKeys) + 1 - i]]
    ELSE ScanKeysReversed(bench, i + 1)

\* a scan that passes over a key holding null
RECURSIVE ScanKeysSkipNull(_, _)
ScanKeysSkipNull(bench, i) ==
    IF i > Len(TimeKeys) THEN Null
    ELSE IF bench.f[TimeKeys[i]] \notin {Absent, Null}
         THEN bench.f[TimeKeys[i]]
    ELSE ScanKeysSkipNull(bench, i + 1)

\* the scan of the candidate keys: the value of the first key present,
\* None (Null) when the loop ends without a break
RECURSIVE ScanKeys(_, _)
ScanKeys(bench, i) ==
    IF i > Len(TimeKeys) THEN Null
    ELSE IF bench.f[TimeKeys[i]] # Absent THEN bench.f[TimeKeys[i]]
    ELSE ScanKeys(bench, i + 1)

TimeValue(bench) == ScanKeys(bench, 1)

\* an iteration that defaults a record without a metric to 0
ExtractRecordDefaultZero(st, bench) ==
    LET name == NameOf(bench)
        time_value == ScanKeys(bench, 1)
    IN  IF time_value # Null
        THEN IF IsNum(time_value)
             THEN [st EXCEPT !.results = Put(st.results, name, time_value[2])]
             ELSE [st EXCEPT !.raised = "ValueError"]
        ELSE [st EXCEPT !.results = Put(st.results, name, 0),
                        !.warned = Append(st.warned, name)]

\* one iteration of the loop over the records.  st is the state of the
\* call: the dict built so far, the names warned about, the exception raised
ExtractRecord(st, bench) ==
    LET name == NameOf(bench)
        time_value == TimeValue(bench)
    IN  IF time_value # Null
        THEN IF IsNum(time_value)
             THEN [st EXCEPT !.results = Put(st.results, name, time_value[2])]
             ELSE [st EXCEPT !.raised = "ValueError"]   \* float('abc')
        ELSE [st EXCEPT !.warned = Append(st.warned, name)]

ExtractStart == [results |-> EmptyMap, warned |-> <<>>, raised |-> "none"]

RECURSIVE ExtractFrom(_, _, _)
ExtractFrom(st, benchmarks, i) ==
    IF i > Len(benchmarks) \/ st.raised # "none" THEN st
    ELSE ExtractFrom(ExtractRecord(st, benchmarks[i]), benchmarks, i + 1)

extract_benchmark_data(benchmarks) == ExtractFrom(ExtractStart, benchmarks, 1)

(***************************************************************************)
(* compare_benchmarks.                                                     *)
(***************************************************************************)
\* the common names in descending order
RECURSIVE SortedNamesDescending(_)
SortedNamesDescending(S) ==
    IF S = {} THEN <<>>
    ELSE LET m == CHOOSE x \in S : \A y \in S \ {x} : NameLess(y, x)
         IN  <<m>> \o SortedNamesDescending(S \ {m})

\* sorted(common_benchmarks)
RECURSIVE SortedNames(_)
SortedNames(S) ==
    IF S = {} THEN <<>>
    ELSE LET m == CHOOSE x \in S : \A y \in S \ {x} : NameLess(x, y)
         IN  <<m>> \o SortedNames(S \ {m})

\* a classification with non-strict comparisons
ClassifyNonStrict(relative_change, threshold) ==
    IF ~RatLess(relative_change, threshold) THEN "REGRESSION"
    ELSE IF ~RatLess(RatNeg(threshold), relative_change) THEN "IMPROVEMENT"
    ELSE "NEUTRAL"

\* the status of one relative change against the threshold
Classify(relative_change, threshold) ==
    IF RatLess(threshold, relative_change) THEN "REGRESSION"
    ELSE IF RatLess(relative_change, RatNeg(threshold)) THEN "IMPROVEMENT"
    ELSE "NEUTRAL"

\* the body of the loop for one common name (baseline_time # 0)
CompareOne(name, baseline_time, current_time, threshold) ==
    LET relative_change == Rat(current_time - baseline_time, baseline_time)
        absolute_change == current_time - baseline_time
    IN  [name |-> name,
         baseline_time |-> baseline_time,
         current_time |-> current_time,
         absolute_change |-> absolute_change,
         relative_change |-> relative_change,
         relative_change_percent |-> RatTimes(relative_change, 100),
         status |-> Classify(relative_change, threshold)]

\* a loop whose has_regression is the status of the last name only
RECURSIVE CompareFromOverwrite(_, _, _, _, _, _)
CompareFromOverwrite(st, names, i, baseline, current, threshold) ==
    IF i > Len(names) \/ st.raised # "none" THEN st
    ELSE LET name == names[i]
         IN  IF baseline[name] = 0
             THEN [st EXCEPT !.raised = "ZeroDivisionError"]
             ELSE LET r == CompareOne(name, baseline[name], current[name],
                                      threshold)
                  IN  CompareFromOverwrite(
                        [st EXCEPT !.results = Append(st.results, r),
                                   !.has_regression = r.status = "REGRESSION"],
                        names, i + 1, baseline, current, threshold)

RECURSIVE CompareFrom(_, _, _, _, _, _)
CompareFrom(st, names, i, baseline, current, threshold) ==
    IF i > Len(names) \/ st.raised # "none" THEN st
    ELSE LET name == names[i]
         IN  IF baseline[name] = 0
             THEN [st EXCEPT !.raised = "ZeroDivisionError"]
             ELSE LET r == CompareOne(name, baseline[name], current[name],
                                      threshold)
                  IN  CompareFrom(
                        [st EXCEPT !.results = Append(st.results, r),
                                   !.has_regression =
                                       st.has_regression
                                         \/ r.status = "REGRESSION"],
                        names, i + 1, baseline, current, threshold)

CompareStart ==
    [has_regression |-> FALSE, results |-> <<>>, warned |-> FALSE,
     raised |-> "none"]

compare_benchmarks(baseline, current, threshold) ==
    LET common_benchmarks == (DOMAIN baseline) \cap (DOMAIN current)
    IN  IF common_benchmarks = {}
        THEN [CompareStart EXCEPT !.warned = TRUE]
        ELSE CompareFrom(CompareStart, SortedNames(common_benchmarks), 1,
                         baseline, current, threshold)

(***************************************************************************)
(* print_comparison_report: the summary counts and the detail rows.  Names *)
(* of the model are shorter than 37 characters, so the display truncation  *)
(* never applies; the statistics lines are printed from the same results   *)
(* and are part of the one "report" line group of stdout.                  *)
(***************************************************************************)
Count(results, status) ==
    Cardinality({i \in DOMAIN results : results[i].status = status})

\* sorted(results, key=relative_change, reverse=True): descending and stable
RECURSIVE SortedByChange(_, _)
SortedByChange(results, left) ==
    IF left = {} THEN <<>>
    ELSE LET i == CHOOSE k \in left :
                    \A j \in left \ {k} :
                        \/ RatLess(results[j].relative_change,
                                   results[k].relative_change)
                        \/ /\ results[j].relative_change
                                = results[k].relative_change
                           /\ k < j
         IN  <<results[i].name>> \o SortedByChange(results, left \ {i})

print_comparison_report(results, threshold) ==
    [total |-> Len(results),
     regressions |-> Count(results, "REGRESSION"),
     improvements |-> Count(results, "IMPROVEMENT"),
     neutral |-> Count(results, "NEUTRAL"),
     threshold |-> threshold,
     rows |-> SortedByChange(results, DOMAIN results)]

NoReport == <<>>

(***************************************************************************)
(* The run of main().                                                      *)
(***************************************************************************)
VARIABLES
    pc,              \* the statement of main() the run is at, or how it ended
    args,            \* the parsed command line
    baseline_data,   \* MetricMap of the baseline document
    current_data,    \* MetricMap of the current document
    has_regression,  \* first component of compare_benchmarks' result
    results,         \* second component of compare_benchmarks' result
    stdout,          \* the lines printed so far, as tags
    report,          \* the comparison report printed, <<>> before it
    output_doc,      \* the documents written to args.output
    files_read,      \* the input files opened so far
    exit_code,       \* the exit status, -1 while the run lasts
    exc              \* the exception that ended the run, "none" otherwise

mainVars ==
    <<pc, args, baseline_data, current_data, has_regression, results, stdout,
      report, output_doc, files_read, exit_code, exc>>

\* --threshold values: negative, zero and positive fractions
Thresholds == {Rat(k, TDen) : k \in (0 - 1)..2}

Names == {NoName, "A", "B"}

\* records of the input files of a run: a name and at most a real_time field
FileRecords ==
    {[name |-> n,
      f |-> [k \in KeySet |-> IF k = "real_time" THEN v ELSE Absent]] :
        n \in Names, v \in {Absent, Null, NaS} \cup {Num(x) : x \in Numbers}}

RECURSIVE SeqsUpTo(_, _)
SeqsUpTo(S, n) ==
    IF n = 0 THEN {<<>>}
    ELSE LET shorter == SeqsUpTo(S, n - 1)
         IN  shorter \cup {Append(q, x) : q \in shorter, x \in S}

Files ==
    {NotFound, BadJson}
      \cup {[kind |-> "wrapped", recs |-> q] : q \in SeqsUpTo(FileRecords, MaxRecords)}
      \cup {[kind |-> "list", recs |-> q] : q \in SeqsUpTo(FileRecords, MaxRecords)}
      \cup {[kind |-> "single", recs |-> <<r>>] : r \in FileRecords}

\* load_benchmark_results followed by extract_benchmark_data on one file
LoadAndExtract(file) ==
    IF file.kind \in {"notfound", "badjson"}
    THEN [err |-> file.kind, results |-> EmptyMap, warnings |-> 0,
          raised |-> "none"]
    ELSE LET st == extract_benchmark_data(load_benchmark_results(file))
         IN  [err |-> "none", results |-> st.results,
              warnings |-> Len(st.warned), raised |-> st.raised]

FileOutcomes == {LoadAndExtract(file) : file \in Files}

RECURSIVE Repeat(_, _)
Repeat(tag, n) == IF n = 0 THEN <<>> ELSE <<tag>> \o Repeat(tag, n - 1)

Init ==
    /\ pc = "validate"
    /\ args \in [threshold : Thresholds, output : BOOLEAN,
                 fail_on_regression : BOOLEAN]
    /\ baseline_data = EmptyMap
    /\ current_data = EmptyMap
    /\ has_regression = FALSE
    /\ results = <<>>
    /\ stdout = <<>>
    /\ report = NoReport
    /\ output_doc = <<>>
    /\ files_read = {}
    /\ exit_code = 0 - 1
    /\ exc = "none"

\* a validation that rejects negative thresholds only
ValidateNegativeOnly ==
    /\ pc = "validate"
    /\ IF RatLess(args.threshold, RatOfInt(0))
       THEN /\ stdout' = Append(stdout, "err_threshold")
            /\ exit_code' = 1
            /\ pc' = "exit_validation"
       ELSE /\ pc' = "load_baseline"
            /\ UNCHANGED <<stdout, exit_code>>
    /\ UNCHANGED <<args, baseline_data, current_data, has_regression, results,
                   report, output_doc, files_read, exc>>

\* if args.threshold <= 0: print error, sys.exit(1)
Validate ==
    /\ pc = "validate"
    /\ IF ~RatLess(RatOfInt(0), args.threshold)
       THEN /\ stdout' = Append(stdout, "err_threshold")
            /\ exit_code' = 1
            /\ pc' = "exit_validation"
       ELSE /\ pc' = "load_baseline"
            /\ UNCHANGED <<stdout, exit_code>>
    /\ UNCHANGED <<args, baseline_data, current_data, has_regression, results,
                   report, output_doc, files_read, exc>>

\* the load and extraction of one input file, into data
LoadStep(at, which, next, data, other) ==
    /\ pc = at
    /\ \E o \in FileOutcomes :
         /\ files_read' = files_read \cup {which}
         /\ IF o.err # "none"
            THEN /\ stdout' = stdout \o <<"loading_" \o which, "err_" \o o.err>>
                 /\ exit_code' = 1
                 /\ pc' = "exit_load"
                 /\ UNCHANGED <<data, exc>>
            ELSE IF o.raised # "none"
            THEN /\ stdout' = stdout \o <<"loading_" \o which>>
                                     \o Repeat("warn_no_metric", o.warnings)
                 /\ exit_code' = 1
                 /\ exc' = o.raised
                 /\ pc' = "crashed"
                 /\ UNCHANGED data
            ELSE /\ stdout' = stdout \o <<"loading_" \o which>>
                                     \o Repeat("warn_no_metric", o.warnings)
                 /\ data' = o.results
                 /\ pc' = next
                 /\ UNCHANGED <<exit_code, exc>>
    /\ UNCHANGED <<args, other, has_regression, results, report, output_doc>>

LoadBaseline ==
    LoadStep("load_baseline", "baseline", "load_current", baseline_data,
             current_data)

LoadCurrent ==
    LoadStep("load_current", "current", "compare", current_data,
             baseline_data)

\* the two "Found n benchmarks" lines and the call of compare_benchmarks
Compare ==
    /\ pc = "compare"
    /\ LET r == compare_benchmarks(baseline_data, current_data, args.threshold)
           out == stdout \o <<"found_counts">>
                         \o (IF r.warned THEN <<"warn_no_common">> ELSE <<>>)
       IN  IF r.raised # "none"
           THEN /\ stdout' = out
                /\ exit_code' = 1
                /\ exc' = r.raised
                /\ pc' = "crashed"
                /\ UNCHANGED <<has_regression, results>>
           ELSE /\ stdout' = out
                /\ has_regression' = r.has_regression
                /\ results' = r.results
                /\ pc' = "report"
                /\ UNCHANGED <<exit_code, exc>>
    /\ UNCHANGED <<args, baseline_data, current_data, report, output_doc,
                   files_read>>

\* a run that prints the report only when there is no regression
ReportUnlessRegression ==
    /\ pc = "report"
    /\ IF has_regression
       THEN UNCHANGED <<report, stdout>>
       ELSE /\ report' = print_comparison_report(results, args.threshold)
            /\ stdout' = Append(stdout, "report")
    /\ pc' = "save"
    /\ UNCHANGED <<args, baseline_data, current_data, has_regression, results,
                   output_doc, files_read, exit_code, exc>>

Report ==
    /\ pc = "report"
    /\ report' = print_comparison_report(results, args.threshold)
    /\ stdout' = Append(stdout, "report")
    /\ pc' = "save"
    /\ UNCHANGED <<args, baseline_data, current_data, has_regression, results,
                   output_doc, files_read, exit_code, exc>>

\* the document json.dump writes
output_data ==
    [threshold |-> args.threshold,
     summary |-> [total_benchmarks |-> Len(results),
                  regressions |-> Count(results, "REGRESSION"),
                  improvements |-> Count(results, "IMPROVEMENT"),
                  neutral |-> Count(results, "NEUTRAL"),
                  has_regression |-> has_regression],
     results |-> results]

SaveOutput ==
    /\ pc = "save"
    /\ IF args.output
       THEN /\ output_doc' = Append(output_doc, output_data)
            /\ stdout' = Append(stdout, "saved")
       ELSE UNCHANGED <<output_doc, stdout>>
    /\ pc' = "verdict"
    /\ UNCHANGED <<args, baseline_data, current_data, has_regression, results,
                   report, files_read, exit_code, exc>>

\* the final verdict: the banner, and sys.exit(1) in strict mode
Verdict ==
    /\ pc = "verdict"
    /\ IF has_regression
       THEN IF args.fail_on_regression
            THEN /\ stdout' = stdout \o <<"banner", "verdict_regression">>
                 /\ exit_code' = 1
                 /\ pc' = "exit_strict"
            ELSE /\ stdout' = stdout \o <<"banner", "verdict_regression",
                                         "banner_close">>
                 /\ exit_code' = 0
                 /\ pc' = "done"
       ELSE /\ stdout' = stdout \o <<"banner", "verdict_ok", "banner_close">>
            /\ exit_code' = 0
            /\ pc' = "done"
    /\ UNCHANGED <<args, baseline_data, current_data, has_regression, results,
                   report, output_doc, files_read, exc>>

(***************************************************************************)
(* The loop of extract_benchmark_data, one record at a time, over records  *)
(* with every combination of the five candidate fields.                    *)
(***************************************************************************)
VARIABLES
    x_pc,     \* "loop", "body_done", "returned" or "raised"
    x_n,      \* len(benchmarks)
    x_i,      \* iterations completed
    x_bench,  \* the record of the iteration, NoBench between iterations
    x_prev,   \* results, warnings and exception when the iteration began
    x_st      \* results, warnings and exception now

xVars == <<x_pc, x_n, x_i, x_bench, x_prev, x_st>>

vars == <<pc, args, baseline_data, current_data, has_regression, results,
          stdout, report, output_doc, files_read, exit_code, exc,
          x_pc, x_n, x_i, x_bench, x_prev, x_st>>

\* the values of the specification's priority example
FieldValues == {Absent, Null, NaS, Num(5), Num(10)}

BenchRecords == [name : {NoName, "A"}, f : [KeySet -> FieldValues]]

NoBench == [name |-> NoName, f |-> [k \in KeySet |-> Absent]]

XIdle ==
    /\ x_pc = "idle"
    /\ x_n = 0
    /\ x_i = 0
    /\ x_bench = NoBench
    /\ x_prev = ExtractStart
    /\ x_st = ExtractStart

MainIdle ==
    /\ pc = "idle"
    /\ args = [threshold |-> Rat(1, TDen), output |-> FALSE,
               fail_on_regression |-> FALSE]
    /\ baseline_data = EmptyMap
    /\ current_data = EmptyMap
    /\ has_regression = FALSE
    /\ results = <<>>
    /\ stdout = <<>>
    /\ report = NoReport
    /\ output_doc = <<>>
    /\ files_read = {}
    /\ exit_code = 0 - 1
    /\ exc = "none"

XInit ==
    /\ x_pc = "loop"
    /\ x_n \in 0..MaxRecords
    /\ x_i = 0
    /\ x_bench = NoBench
    /\ x_prev = ExtractStart
    /\ x_st = ExtractStart

\* the body of "for bench in benchmarks" on the next record
XIterate ==
    /\ x_pc = "loop"
    /\ x_i < x_n
    /\ \E bench \in BenchRecords :
         /\ x_bench' = bench
         /\ x_prev' = x_st
         /\ x_st' = ExtractRecord(x_st, bench)
         /\ x_pc' = IF ExtractRecord(x_st, bench).raised # "none"
                    THEN "raised" ELSE "body_done"
    /\ UNCHANGED <<x_n, x_i>>

\* back to the loop header
XAdvance ==
    /\ x_pc = "body_done"
    /\ x_i' = x_i + 1
    /\ x_bench' = NoBench
    /\ x_prev' = x_st
    /\ x_pc' = "loop"
    /\ UNCHANGED <<x_n, x_st>>

\* return results
XReturn ==
    /\ x_pc = "loop"
    /\ x_i = x_n
    /\ x_pc' = "returned"
    /\ UNCHANGED <<x_n, x_i, x_bench, x_prev, x_st>>

(***************************************************************************)
(* Specifications.                                                         *)
(***************************************************************************)
MainInit == Init /\ XIdle

Next ==
    \/ Validate /\ UNCHANGED xVars
    \/ LoadBaseline /\ UNCHANGED xVars
    \/ LoadCurrent /\ UNCHANGED xVars
    \/ Compare /\ UNCHANGED xVars
    \/ Report /\ UNCHANGED xVars
    \/ SaveOutput /\ UNCHANGED xVars
    \/ Verdict /\ UNCHANGED xVars

Spec == MainInit /\ [][Next]_vars

ExtractInit == MainIdle /\ XInit

ExtractNext ==
    \/ XIterate /\ UNCHANGED mainVars
    \/ XAdvance /\ UNCHANGED mainVars
    \/ XReturn /\ UNCHANGED mainVars

SpecExtract == ExtractInit /\ [][ExtractNext]_vars

(***************************************************************************)
(* Properties of the run of main(), checked under Spec.                    *)
(***************************************************************************)
\* compare_benchmarks has returned to main()
Returned == pc \in {"report", "save", "verdict", "done", "exit_strict"}

Common == (DOMAIN baseline_data) \cap (DOMAIN current_data)

\* (c - b) / b > t and (c - b) / b < -t, by cross-multiplication
ChangeAbove(b, c, t) ==
    IF b > 0 THEN (c - b) * t.d > t.n * b ELSE (c - b) * t.d < t.n * b
ChangeBelow(b, c, t) ==
    IF b > 0 THEN (c - b) * t.d < (0 - t.n) * b
    ELSE (c - b) * t.d > (0 - t.n) * b
ChangeAtBoundary(b, c, t) ==
    \/ (c - b) * t.d = t.n * b
    \/ (c - b) * t.d = (0 - t.n) * b

\* C1: for a positive threshold t, every name matched in both maps (baseline
\* b # 0, current c) gets status REGRESSION iff (c-b)/b > t, IMPROVEMENT iff
\* (c-b)/b < -t and NEUTRAL otherwise; a change of exactly +t or -t is NEUTRAL.
C1_Classification ==
    Returned =>
      \A name \in Common :
        \E i \in DOMAIN results :
          LET r == results[i]
              b == baseline_data[name]
              c == current_data[name]
              t == args.threshold
          IN  /\ r.name = name
              /\ b # 0
              /\ r.status = "REGRESSION" <=> ChangeAbove(b, c, t)
              /\ r.status = "IMPROVEMENT" <=> ChangeBelow(b, c, t)
              /\ r.status = "NEUTRAL"
                   <=> (~ChangeAbove(b, c, t) /\ ~ChangeBelow(b, c, t))
              /\ ChangeAtBoundary(b, c, t) => r.status = "NEUTRAL"

\* a result exactly at the threshold next to a regression
C1_Witness ==
    /\ pc = "report"
    /\ \E i, j \in DOMAIN results :
         /\ ChangeAtBoundary(results[i].baseline_time,
                             results[i].current_time, args.threshold)
         /\ results[i].status = "NEUTRAL"
         /\ results[j].status = "REGRESSION"

ZeroBaselineMatched == \E name \in Common : baseline_data[name] = 0

\* C2: when a name matched in both maps has a baseline of exactly 0, the
\* comparison does not crash and the run still reaches the report and verdict.
C2_ZeroBaselineHandled == ZeroBaselineMatched => pc # "crashed"

\* C3: the result list has exactly one entry per name present in both maps,
\* none for a name in only one map, in strictly ascending order of name; with
\* no common name the list is empty and has_regression is false.
C3_MatchedNamesInOrder ==
    Returned =>
      /\ {results[i].name : i \in DOMAIN results} = Common
      /\ Len(results) = Cardinality(Common)
      /\ \A i, j \in DOMAIN results :
           i < j => NameLess(results[i].name, results[j].name)
      /\ Common = {} => (results = <<>> /\ ~has_regression)

\* baseline {A, B} against current {B, unknown}: only B is compared
C3_Witness ==
    /\ pc = "report"
    /\ DOMAIN baseline_data = {"A", "B"}
    /\ DOMAIN current_data = {"B", "unknown"}
    /\ Len(results) = 1
    /\ results[1].name = "B"

\* C4: has_regression is true iff some entry of the result list has status
\* REGRESSION, and the output document's has_regression field is true iff its
\* regressions count is positive.
C4_HasRegressionIffAny ==
    /\ Returned =>
         (has_regression
            <=> \E i \in DOMAIN results : results[i].status = "REGRESSION")
    /\ \A k \in DOMAIN output_doc :
         output_doc[k].summary.has_regression
           <=> output_doc[k].summary.regressions > 0

\* an output document of a run with a regression after a non-regression
C4_Witness ==
    /\ output_doc # <<>>
    /\ has_regression
    /\ \E i, j \in DOMAIN results :
         /\ i < j
         /\ results[i].status = "REGRESSION"
         /\ results[j].status # "REGRESSION"

\* the run passed validation and both load/extract steps, and has ended
EndedAfterLoading ==
    \/ pc \in {"done", "exit_strict"}
    \/ pc = "crashed" /\ exc = "ZeroDivisionError"

\* C5: a run that passes validation and loads both documents ends with exit
\* code 1 iff has_regression and --fail-on-regression, and with 0 otherwise.
C5_ExitCode ==
    EndedAfterLoading =>
      /\ exit_code \in {0, 1}
      /\ exit_code = 1 <=> (has_regression /\ args.fail_on_regression)

VerdictTags == {"banner", "verdict_regression", "verdict_ok", "banner_close"}

\* C6: the verdict is evaluated last: when the run exits with the strict
\* failure or completes, the report is printed and the output document (if
\* asked for) is written, and nothing of either follows the verdict.
C6_VerdictLast ==
    /\ pc \in {"done", "exit_strict"} =>
         /\ report # NoReport
         /\ \E i \in DOMAIN stdout : stdout[i] = "report"
         /\ args.output => Len(output_doc) = 1
         /\ stdout[Len(stdout)] \in VerdictTags
    /\ \A i, j \in DOMAIN stdout :
         (stdout[i] \in VerdictTags /\ i < j) => stdout[j] \in VerdictTags
    /\ pc \in {"validate", "load_baseline", "load_current", "compare",
               "report", "save", "verdict"} =>
         \A i \in DOMAIN stdout : stdout[i] \notin VerdictTags

\* a strict failure after the report and the output document
C6_Witness ==
    /\ pc = "exit_strict"
    /\ args.output
    /\ Len(output_doc) = 1

\* C9: with a threshold <= 0 the run ends with exit code 1 before any input
\* is read and before any comparison, report or output document; with a
\* positive threshold the validation never ends the run.
C9_ThresholdValidation ==
    /\ args.threshold.n <= 0 =>
         /\ pc \in {"validate", "exit_validation"}
         /\ pc = "exit_validation" => exit_code = 1
         /\ files_read = {}
         /\ results = <<>>
         /\ report = NoReport
         /\ output_doc = <<>>
         /\ \A i \in DOMAIN stdout : stdout[i] = "err_threshold"
    /\ args.threshold.n > 0 => pc # "exit_validation"

\* a zero threshold has ended the run
C9_Witness ==
    /\ pc = "exit_validation"
    /\ args.threshold.n = 0
    /\ exit_code = 1

(***************************************************************************)
(* Properties of extract_benchmark_data, checked under SpecExtract.        *)
(***************************************************************************)
\* the body of the loop has run on x_bench
Iterated == x_pc \in {"body_done", "raised"}

PresentAt(bench) == {i \in DOMAIN TimeKeys : bench.f[TimeKeys[i]] # Absent}

\* the value of the present candidate field that comes first in the order
FirstPresentValue(bench) ==
    LET first == CHOOSE i \in PresentAt(bench) :
                     \A j \in PresentAt(bench) : i <= j
    IN  bench.f[TimeKeys[first]]

\* the name has the entry v after the iteration
HasEntry(name, v) ==
    /\ x_st.raised = "none"
    /\ name \in DOMAIN x_st.results
    /\ x_st.results[name] = v

\* C7 as claimed: every record with at least one candidate field gets the
\* value of its first present field, in the fixed order, as its metric.
C7_FirstPresentAlways ==
    (Iterated /\ PresentAt(x_bench) # {}) =>
      /\ IsNum(FirstPresentValue(x_bench))
      /\ HasEntry(NameOf(x_bench), FirstPresentValue(x_bench)[2])

\* C7 amended: every record whose first present candidate field, in the fixed
\* order, holds a number gets that number as its metric, whatever the other
\* fields hold.
C7_FirstPresentNumber ==
    (Iterated /\ PresentAt(x_bench) # {}
       /\ IsNum(FirstPresentValue(x_bench))) =>
      HasEntry(NameOf(x_bench), FirstPresentValue(x_bench)[2])

\* cpu_time 5 and duration 10 yield 5
C7_Witness ==
    /\ Iterated
    /\ x_bench.f["real_time"] = Absent
    /\ x_bench.f["cpu_time"] = Num(5)
    /\ x_bench.f["duration"] = Num(10)
    /\ HasEntry(NameOf(x_bench), 5)

\* the iteration left the dict alone, warned about the record and went on
Dropped ==
    /\ x_st.results = x_prev.results
    /\ x_st.warned = Append(x_prev.warned, NameOf(x_bench))
    /\ x_st.raised = "none"
    /\ x_pc = "body_done"

\* C8: a record with no recognized timing field adds no entry to the map
\* (never a default of 0), is warned about, does not fail the extraction, and
\* the loop goes on to every other record.
C8_MissingMetricDropped ==
    /\ (Iterated /\ PresentAt(x_bench) = {}) => Dropped
    /\ x_pc = "returned" => x_i = x_n

\* a record without a timing field, dropped after another was extracted
C8_Witness ==
    /\ Iterated
    /\ PresentAt(x_bench) = {}
    /\ x_prev.results # EmptyMap
    /\ NameOf(x_bench) \notin DOMAIN x_st.results

\* the record without the candidate fields that follow its first present one
WithoutLower(bench) ==
    LET first == CHOOSE i \in PresentAt(bench) :
                     \A j \in PresentAt(bench) : i <= j
    IN  [bench EXCEPT !.f = [k \in KeySet |->
                               IF k = TimeKeys[first] THEN bench.f[k]
                               ELSE Absent]]

\* C10: the scan stops at the first candidate key present: when it holds
\* null the record is dropped with a warning and gets no entry, even when a
\* lower-priority field holds a number; the lower-priority fields never
\* change the outcome.
C10_NullFirstFieldDrops ==
    (Iterated /\ PresentAt(x_bench) # {}) =>
      /\ FirstPresentValue(x_bench) = Null => Dropped
      /\ x_st = ExtractRecord(x_prev, WithoutLower(x_bench))

\* real_time null and cpu_time 5: no entry
C10_Witness ==
    /\ Iterated
    /\ x_bench.f["real_time"] = Null
    /\ x_bench.f["cpu_time"] = Num(5)
    /\ NameOf(x_bench) \notin DOMAIN x_st.results
    /\ Len(x_st.warned) = Len(x_prev.warned) + 1

=============================================================================
